---- MODULE Spec2Model ----
(***************************************************************************)
(* Code Shelf: the inventory and circulation engine of src/main.py.        *)
(*                                                                         *)
(* Python objects are modelled by reference: Book objects live in          *)
(* book_heap and BorrowRecord objects in record_heap, an object's address  *)
(* being its index.  The linked list, the hash table, the stack and the    *)
(* open-loan dictionary hold addresses, as the Python containers hold      *)
(* references.                                                             *)
(***************************************************************************)
EXTENDS Integers, Sequences, FiniteSets, TLC

\* ---------------------------------------------------------------- bounds
MaxBooks == 2       \* Book objects ever constructed
MaxHistory == 2     \* BorrowRecord objects ever constructed
MaxWaitlist == 2    \* WaitlistEntry objects held by the queue at once
MaxLongWaitlist == 3 \* the same, in the waitlist specification
MaxClock == 1       \* largest value datetime.now() returns
MaxLongClock == 3   \* the same, in the history specification

\* ---------------------------------------------------------------- inputs
Ids == {"A", "B"}
Users == {"u1", "u2"}
\* strings are sequences of code points: "a" = <<97>>, "B" = <<66>>
\* (title, author, year) of the books that are added: ("a", "B", 1925) and
\* ("B", "a", 1960)
Catalogue == {<<(<<97>>), (<<66>>), 1925>>, <<(<<66>>), (<<97>>), 1960>>}
\* sort_by arguments: "Title", "author", "year"
SortKeys == {<<84, 105, 116, 108, 101>>, <<97, 117, 116, 104, 111, 114>>,
             <<121, 101, 97, 114>>}
\* search_by_title arguments: "A", "b"
Queries == {<<65>>, <<98>>}
\* hash() of the ids: -93 and 107 fall into one bucket, -93 and 8 do not
HashFunctions == {[k \in Ids |-> IF k = "A" THEN -93 ELSE 107],
                  [k \in Ids |-> IF k = "A" THEN -93 ELSE 8]}

\* ---------------------------------------------------------------- None
NoneRef == 0
NoneDate == 0
NoneStr == "None"

VARIABLES book_heap, record_heap, books, borrow_history, waitlist,
          book_hash_table, borrowed_books, hash, clock, call

engine == <<book_heap, record_heap, books, borrow_history, waitlist,
            book_hash_table, borrowed_books>>
vars == <<book_heap, record_heap, books, borrow_history, waitlist,
          book_hash_table, borrowed_books, hash, clock, call>>

\* ---------------------------------------------------------------- Book
Book(book_id, title, author, year) ==
    [book_id |-> book_id, title |-> title, author |-> author, year |-> year,
     is_borrowed |-> FALSE, borrowed_by |-> NoneStr, borrow_date |-> NoneDate]

\* a record without the borrower's name
BorrowRecord_unnamed(book, borrower, borrow_date) ==
    [book |-> book, borrower |-> NoneStr, borrow_date |-> borrow_date,
     return_date |-> NoneDate]

BorrowRecord(book, borrower, borrow_date) ==
    [book |-> book, borrower |-> borrower, borrow_date |-> borrow_date,
     return_date |-> NoneDate]

WaitlistEntry(book_id, user_name, request_date) ==
    [book_id |-> book_id, user_name |-> user_name,
     request_date |-> request_date]

\* datetime.now(): the clock never runs backwards
Now(t) == t..(t + 1)

\* ---------------------------------------------------------------- str
\* str.lower() on ASCII code points
LowerChar(c) == IF c >= 65 /\ c <= 90 THEN c + 32 ELSE c
\* the string as it is
Lower_kept(s) == s

Lower(s) == [i \in 1..Len(s) |-> LowerChar(s[i])]

\* s < t for Python strings (lexicographic on code points)
RECURSIVE StrLess(_, _)
StrLess(s, t) ==
    IF t = <<>> THEN FALSE
    ELSE IF s = <<>> THEN TRUE
    ELSE IF s[1] # t[1] THEN s[1] < t[1]
    ELSE StrLess(Tail(s), Tail(t))

\* ---------------------------------------------------------------- LinkedList
\* books.nodes is the chain head, head.next, ... as a sequence of Book refs
\* a search that starts behind the head node
LinkedList_search_by_id_next(heap, nodes, book_id) ==
    LET m == {i \in 2..Len(nodes) : heap[nodes[i]].book_id = book_id}
    IN IF m = {} THEN NoneRef
       ELSE nodes[CHOOSE i \in m : \A j \in m : i <= j]

RECURSIVE LinkedList_search_by_id(_, _, _)
LinkedList_search_by_id(heap, nodes, book_id) ==
    IF nodes = <<>> THEN NoneRef
    ELSE IF heap[Head(nodes)].book_id = book_id THEN Head(nodes)
    ELSE LinkedList_search_by_id(heap, Tail(nodes), book_id)

LinkedList_add_book(list, book) ==
    [nodes |-> Append(list.nodes, book), size |-> list.size + 1]

\* an unlinking of the head node, whatever id it holds
RemoveFirst_head(heap, nodes, book_id) == Tail(nodes)

RECURSIVE RemoveFirst(_, _, _)
RemoveFirst(heap, nodes, book_id) ==
    IF nodes = <<>> THEN <<>>
    ELSE IF heap[Head(nodes)].book_id = book_id THEN Tail(nodes)
    ELSE <<Head(nodes)>> \o RemoveFirst(heap, Tail(nodes), book_id)

LinkedList_remove_book(heap, list, book_id) ==
    IF LinkedList_search_by_id(heap, list.nodes, book_id) = NoneRef
    THEN list
    ELSE [nodes |-> RemoveFirst(heap, list.nodes, book_id),
          size |-> list.size - 1]

get_all_books(list) == list.nodes

\* needle in haystack, for Python strings
IsSubstring(needle, haystack) ==
    \E i \in 0..(Len(haystack) - Len(needle)) :
        SubSeq(haystack, i + 1, i + Len(needle)) = needle

RECURSIVE LinkedList_search_by_title(_, _, _)
LinkedList_search_by_title(heap, nodes, title) ==
    IF nodes = <<>> THEN <<>>
    ELSE (IF IsSubstring(Lower(title), Lower(heap[Head(nodes)].title))
          THEN <<Head(nodes)>> ELSE <<>>)
         \o LinkedList_search_by_title(heap, Tail(nodes), title)

\* an insertion that goes in front of the items of an equal key
RECURSIVE InsertSorted_front(_, _, _)
InsertSorted_front(sorted, x, key) ==
    IF sorted = <<>> THEN <<x>>
    ELSE IF ~StrLess(key[Head(sorted)], key[x])
         THEN <<x>> \o sorted
         ELSE <<Head(sorted)>> \o InsertSorted_front(Tail(sorted), x, key)

\* list.sort(key=...): stable, ascending on the key; key maps a ref to
\* its sort key
RECURSIVE InsertSorted(_, _, _)
InsertSorted(sorted, x, key) ==
    IF sorted = <<>> THEN <<x>>
    ELSE IF StrLess(key[x], key[Head(sorted)])
         THEN <<x>> \o sorted
         ELSE <<Head(sorted)>> \o InsertSorted(Tail(sorted), x, key)

RECURSIVE ListSort(_, _)
ListSort(items, key) ==
    IF items = <<>> THEN <<>>
    ELSE InsertSorted(ListSort(SubSeq(items, 1, Len(items) - 1), key),
                      items[Len(items)], key)

\* a rebuild that stops before the last Book
Rebuild_short(list, items) ==
    [nodes |-> SubSeq(items, 1, Len(items) - 1), size |-> Len(items) - 1]

RECURSIVE Rebuild(_, _)
Rebuild(list, items) ==
    IF items = <<>> THEN list
    ELSE Rebuild(LinkedList_add_book(list, Head(items)), Tail(items))

sort_by_title(heap, list) ==
    IF Len(list.nodes) < 2 THEN list
    ELSE LET key == [a \in DOMAIN heap |-> Lower(heap[a].title)]
         IN Rebuild([nodes |-> <<>>, size |-> 0],
                    ListSort(get_all_books(list), key))

sort_by_author(heap, list) ==
    IF Len(list.nodes) < 2 THEN list
    ELSE LET key == [a \in DOMAIN heap |-> Lower(heap[a].author)]
         IN Rebuild([nodes |-> <<>>, size |-> 0],
                    ListSort(get_all_books(list), key))

\* ---------------------------------------------------------------- HashTable
size == 100

_hash(key) == hash[key] % size

\* self.table is a list of size buckets; book_hash_table maps the indices
\* of its non-empty buckets to their chains, every other bucket is []
Bucket(table, hash_key) ==
    IF hash_key \in DOMAIN table THEN table[hash_key] ELSE <<>>

SetBucket(table, hash_key, chain) ==
    [b \in (IF chain = <<>> THEN DOMAIN table \ {hash_key}
            ELSE DOMAIN table \cup {hash_key}) |->
        IF b = hash_key THEN chain ELSE table[b]]

RECURSIVE BucketFind(_, _)
BucketFind(bucket, key) ==
    IF bucket = <<>> THEN 0
    ELSE IF Head(bucket)[1] = key THEN 1
    ELSE LET r == BucketFind(Tail(bucket), key)
         IN IF r = 0 THEN 0 ELSE r + 1

\* an insert that never looks for the key
HashTable_insert_append(table, key, value) ==
    SetBucket(table, _hash(key),
              Append(Bucket(table, _hash(key)), <<key, value>>))

HashTable_insert(table, key, value) ==
    LET hash_key == _hash(key)
        b == Bucket(table, hash_key)
        i == BucketFind(b, key)
    IN IF i # 0
       THEN SetBucket(table, hash_key, [b EXCEPT ![i] = <<key, value>>])
       ELSE SetBucket(table, hash_key, Append(b, <<key, value>>))

\* a lookup that takes the first entry of the key's bucket
HashTable_get_head(table, key) ==
    IF Bucket(table, _hash(key)) # <<>>
    THEN Bucket(table, _hash(key))[1][2] ELSE NoneRef

HashTable_get(table, key) ==
    LET hash_key == _hash(key)
        i == BucketFind(Bucket(table, hash_key), key)
    IN IF i # 0 THEN Bucket(table, hash_key)[i][2] ELSE NoneRef

\* delete that finds nothing
HashTable_delete_lost(table, key) == table

HashTable_delete(table, key) ==
    LET hash_key == _hash(key)
        b == Bucket(table, hash_key)
        i == BucketFind(b, key)
    IN IF i # 0
       THEN SetBucket(table, hash_key,
                      SubSeq(b, 1, i - 1) \o SubSeq(b, i + 1, Len(b)))
       ELSE table

\* the value delete returns
HashTable_delete_found(table, key) ==
    BucketFind(Bucket(table, _hash(key)), key) # 0

\* ---------------------------------------------------------------- Stack, Queue
\* a push that takes the place of the top item
push_over(items, item) ==
    IF items = <<>> THEN <<item>>
    ELSE [items EXCEPT ![Len(items)] = item]

push(items, item) == Append(items, item)
\* an enqueue at the front
enqueue_front(items, item) == <<item>> \o items

\* an enqueue that appends the item twice
enqueue_twice(items, item) == Append(Append(items, item), item)

enqueue(items, item) == Append(items, item)
dequeue(items) == Tail(items)
Stack_get_all_items(items) == items
Queue_get_all_items(items) == items

\* the items as they are stored
reversed_not(items) == items

\* reversed(records)
RECURSIVE reversed(_)
reversed(items) ==
    IF items = <<>> THEN <<>>
    ELSE Append(reversed(Tail(items)), Head(items))

\* ---------------------------------------------------------------- engine
\* a lookup that falls back to the Book constructed last
search_by_id_last(book_id) ==
    IF HashTable_get(book_hash_table, book_id) # NoneRef
    THEN HashTable_get(book_hash_table, book_id)
    ELSE Len(book_heap)

search_by_id(book_id) == HashTable_get(book_hash_table, book_id)

Init ==
    /\ book_heap = <<>>
    /\ record_heap = <<>>
    /\ books = [nodes |-> <<>>, size |-> 0]
    /\ borrow_history = <<>>
    /\ waitlist = <<>>
    /\ book_hash_table = [b \in {} |-> <<>>]
    /\ borrowed_books = [k \in {} |-> NoneRef]
    /\ hash \in HashFunctions
    /\ clock = 1
    /\ call = [name |-> "init"]

add_book(book_id, title, author, year) ==
    /\ IF LinkedList_search_by_id(book_heap, books.nodes, book_id) # NoneRef
       THEN /\ call' = [name |-> "add_book", book_id |-> book_id,
                        ret |-> FALSE, path |-> "DuplicateId"]
            /\ UNCHANGED <<book_heap, books, book_hash_table>>
       ELSE /\ LET book == Len(book_heap) + 1
               IN /\ book_heap' = Append(book_heap,
                                         Book(book_id, title, author, year))
                  /\ books' = LinkedList_add_book(books, book)
                  /\ book_hash_table' =
                         HashTable_insert(book_hash_table, book_id, book)
            /\ call' = [name |-> "add_book", book_id |-> book_id,
                        ret |-> TRUE, path |-> "Added"]
    /\ UNCHANGED <<record_heap, borrow_history, waitlist, borrowed_books,
                   hash, clock>>

\* a removal that never sees a loan
is_borrowed_never(book) == FALSE

\* book.is_borrowed
is_borrowed(book) == book_heap[book].is_borrowed

remove_book(book_id) ==
    LET book == LinkedList_search_by_id(book_heap, books.nodes, book_id)
    IN /\ IF book = NoneRef
          THEN /\ call' = [name |-> "remove_book", book_id |-> book_id,
                           ret |-> FALSE, path |-> "NotFound"]
               /\ UNCHANGED <<books, book_hash_table>>
          ELSE IF is_borrowed(book)
          THEN /\ call' = [name |-> "remove_book", book_id |-> book_id,
                           ret |-> FALSE, path |-> "RecordBusy"]
               /\ UNCHANGED <<books, book_hash_table>>
          ELSE /\ books' = LinkedList_remove_book(book_heap, books, book_id)
               /\ book_hash_table' = HashTable_delete(book_hash_table, book_id)
               /\ call' = [name |-> "remove_book", book_id |-> book_id,
                           ret |-> TRUE, path |-> "Removed"]
       /\ UNCHANGED <<book_heap, record_heap, borrow_history, waitlist,
                      borrowed_books, hash, clock>>

borrow_book(book_id, borrower) ==
    LET book == search_by_id(book_id)
    IN /\ IF book = NoneRef
          THEN /\ call' = [name |-> "borrow_book", book_id |-> book_id,
                           borrower |-> borrower,
                           ret |-> FALSE, path |-> "NotFound"]
               /\ UNCHANGED <<book_heap, record_heap, borrow_history,
                              waitlist, borrowed_books, clock>>
          ELSE IF book_heap[book].is_borrowed
          THEN /\ \E now \in Now(clock) :
                     /\ waitlist' = enqueue(waitlist,
                            WaitlistEntry(book_id, borrower, now))
                     /\ clock' = now
               /\ call' = [name |-> "borrow_book", book_id |-> book_id,
                           borrower |-> borrower,
                           ret |-> FALSE, path |-> "Waitlisted"]
               /\ UNCHANGED <<book_heap, record_heap, borrow_history,
                              borrowed_books>>
          ELSE /\ \E now1 \in Now(clock) : \E now2 \in Now(now1) :
                     LET record == Len(record_heap) + 1
                     IN /\ book_heap' = [book_heap EXCEPT ![book] =
                               [@ EXCEPT !.is_borrowed = TRUE,
                                         !.borrowed_by = borrower,
                                         !.borrow_date = now1]]
                        /\ record_heap' = Append(record_heap,
                               BorrowRecord(book, borrower, now2))
                        /\ borrow_history' = push(borrow_history, record)
                        /\ borrowed_books' =
                               [k \in DOMAIN borrowed_books \cup {book_id} |->
                                   IF k = book_id THEN record
                                   ELSE borrowed_books[k]]
                        /\ clock' = now2
               /\ call' = [name |-> "borrow_book", book_id |-> book_id,
                           borrower |-> borrower,
                           ret |-> TRUE, path |-> "Borrowed"]
               /\ UNCHANGED waitlist
       /\ UNCHANGED <<books, book_hash_table, hash>>

\* a scan that takes every entry of the book out
RECURSIVE Scan_every(_, _, _, _)
Scan_every(queue, temp_queue, found_waiting, book_id) ==
    IF queue = <<>>
    THEN [temp_queue |-> temp_queue, found_waiting |-> found_waiting]
    ELSE LET entry == Head(queue)
         IN IF entry.book_id = book_id
            THEN Scan_every(Tail(queue), temp_queue,
                            IF found_waiting = <<>> THEN <<entry>>
                            ELSE found_waiting, book_id)
            ELSE Scan_every(Tail(queue), Append(temp_queue, entry),
                            found_waiting, book_id)

\* the scan of return_book: dequeue every entry, keep the first match aside
RECURSIVE Scan(_, _, _, _)
Scan(queue, temp_queue, found_waiting, book_id) ==
    IF queue = <<>>
    THEN [temp_queue |-> temp_queue, found_waiting |-> found_waiting]
    ELSE LET entry == Head(queue)
         IN IF entry.book_id = book_id /\ found_waiting = <<>>
            THEN Scan(dequeue(queue), temp_queue, <<entry>>, book_id)
            ELSE Scan(dequeue(queue), enqueue(temp_queue, entry),
                      found_waiting, book_id)

\* a restore that takes the kept entries back last one first
Restore_backwards(queue, temp_queue) == queue \o reversed(temp_queue)

\* the restore loop of return_book
RECURSIVE Restore(_, _)
Restore(queue, temp_queue) ==
    IF temp_queue = <<>> THEN queue
    ELSE Restore(enqueue(queue, Head(temp_queue)), dequeue(temp_queue))

\* return_date is left unset
close_record_unset(records, record, now) == records

\* borrowed_books[book_id].return_date = datetime.now()
close_record(records, record, now) ==
    [records EXCEPT ![record].return_date = now]

\* a check that only asks whether the book exists
cannot_return_absent(book) == book = NoneRef

\* not book or not book.is_borrowed
cannot_return(book) == book = NoneRef \/ ~book_heap[book].is_borrowed

\* a return that leaves the Book as it is
mark_returned_kept(b) == b

\* a return that keeps the borrower's name
mark_returned_named(b) ==
    [b EXCEPT !.is_borrowed = FALSE, !.borrow_date = NoneDate]

\* book.is_borrowed = False; book.borrowed_by = None; book.borrow_date = None
mark_returned(b) ==
    [b EXCEPT !.is_borrowed = FALSE, !.borrowed_by = NoneStr,
              !.borrow_date = NoneDate]

return_book(book_id) ==
    LET book == search_by_id(book_id)
    IN /\ IF cannot_return(book)
          THEN /\ call' = [name |-> "return_book", book_id |-> book_id,
                           ret |-> FALSE,
                           path |-> IF book = NoneRef THEN "NotFound"
                                    ELSE "NotBorrowed",
                           notified |-> NoneStr]
               /\ UNCHANGED <<book_heap, record_heap, borrowed_books,
                              waitlist, clock>>
          ELSE /\ book_heap' = [book_heap EXCEPT ![book] = mark_returned(@)]
               /\ IF book_id \in DOMAIN borrowed_books
                  THEN \E now \in Now(clock) :
                          /\ record_heap' =
                                 close_record(record_heap,
                                     borrowed_books[book_id], now)
                          /\ borrowed_books' =
                                 [k \in DOMAIN borrowed_books \ {book_id} |->
                                     borrowed_books[k]]
                          /\ clock' = now
                  ELSE UNCHANGED <<record_heap, borrowed_books, clock>>
               /\ LET s == Scan(waitlist, <<>>, <<>>, book_id)
                  IN /\ waitlist' = IF waitlist # <<>>
                                    THEN Restore(<<>>, s.temp_queue)
                                    ELSE waitlist
                     /\ call' = [name |-> "return_book",
                                 book_id |-> book_id,
                                 ret |-> TRUE, path |-> "Returned",
                                 notified |->
                                    IF s.found_waiting # <<>>
                                    THEN s.found_waiting[1].user_name
                                    ELSE NoneStr]
       /\ UNCHANGED <<books, borrow_history, book_hash_table, hash>>

display_all_books(sort_by) ==
    /\ books' = IF Lower(sort_by) = <<116, 105, 116, 108, 101>>
                THEN sort_by_title(book_heap, books)
                ELSE IF Lower(sort_by) = <<97, 117, 116, 104, 111, 114>>
                THEN sort_by_author(book_heap, books)
                ELSE books
    /\ call' = [name |-> "display_all_books", sort_by |-> sort_by]
    /\ UNCHANGED <<book_heap, record_heap, borrow_history, waitlist,
                   book_hash_table, borrowed_books, hash, clock>>

search_by_title(title) ==
    /\ call' = [name |-> "search_by_title", title |-> title,
                out |-> LinkedList_search_by_title(book_heap, books.nodes,
                                                   title)]
    /\ UNCHANGED <<engine, hash, clock>>

search_by_id_call(book_id) ==
    /\ call' = [name |-> "search_by_id", book_id |-> book_id,
                ret |-> search_by_id(book_id)]
    /\ UNCHANGED <<engine, hash, clock>>

display_borrow_history ==
    /\ call' = [name |-> "display_borrow_history",
                out |-> reversed(Stack_get_all_items(borrow_history))]
    /\ UNCHANGED <<engine, hash, clock>>

display_waitlist ==
    /\ call' = [name |-> "display_waitlist",
                out |-> Queue_get_all_items(waitlist)]
    /\ UNCHANGED <<engine, hash, clock>>

\* the objects a step may leave allocated, and the time it may end at
Bounded(max_waitlist, max_clock) ==
    /\ Len(book_heap') <= MaxBooks
    /\ Len(record_heap') <= MaxHistory
    /\ Len(waitlist') <= max_waitlist
    /\ clock' <= max_clock

Next ==
    \/ \E book_id \in Ids, b \in Catalogue :
          add_book(book_id, b[1], b[2], b[3])
             /\ Bounded(MaxWaitlist, MaxClock)
    \/ \E book_id \in Ids : remove_book(book_id)
    \/ \E book_id \in Ids, borrower \in Users :
          borrow_book(book_id, borrower) /\ Bounded(MaxWaitlist, MaxClock)
    \/ \E book_id \in Ids :
          return_book(book_id) /\ Bounded(MaxWaitlist, MaxClock)
    \/ \E sort_by \in SortKeys : display_all_books(sort_by)
    \/ \E title \in Queries : search_by_title(title)
    \/ \E book_id \in Ids : search_by_id_call(book_id)
    \/ display_borrow_history
    \/ display_waitlist

Spec == Init /\ [][Next]_vars

\* ---------------------------------------------------------------- views
\* the Registry as the sequence of its Books' ids
RegistryIds == [i \in 1..Len(books.nodes) |-> book_heap[books.nodes[i]].book_id]

\* the (bucket, position) slots of the HashIndex that hold an entry
HashSlots ==
    UNION {{<<b, p>> : p \in 1..Len(Bucket(book_hash_table, b))} :
              b \in 0..(size - 1)}
HashEntry(s) == Bucket(book_hash_table, s[1])[s[2]]

\* the Record registered under an id (NoneRef when there is none)
RecordOf(book_id) ==
    LET m == {i \in 1..Len(books.nodes) :
                 book_heap[books.nodes[i]].book_id = book_id}
    IN IF m = {} THEN NoneRef
       ELSE books.nodes[CHOOSE i \in m : \A j \in m : i <= j]

\* the open BorrowEvents of the Ledger for an id, as Ledger positions
OpenEvents(book_id) ==
    {i \in 1..Len(borrow_history) :
        /\ record_heap[borrow_history[i]].return_date = NoneDate
        /\ book_heap[record_heap[borrow_history[i]].book].book_id = book_id}

\* ---------------------------------------------------------------- claims
\* C1: after every call the ids of the Registry are exactly the ids of the
\* HashIndex, each HashIndex entry refers to the Book object the Registry
\* node of that id holds, the HashIndex has one entry per id, and no id
\* occurs twice in the Registry.
C1_DualStructure ==
    LET slots == HashSlots
    IN /\ {RegistryIds[i] : i \in 1..Len(books.nodes)}
             = {HashEntry(s)[1] : s \in slots}
       /\ \A s \in slots :
             \E i \in 1..Len(books.nodes) :
                /\ RegistryIds[i] = HashEntry(s)[1]
                /\ books.nodes[i] = HashEntry(s)[2]
       /\ \A s, t \in slots : HashEntry(s)[1] = HashEntry(t)[1] => s = t
       /\ \A i, j \in 1..Len(books.nodes) :
             RegistryIds[i] = RegistryIds[j] => i = j

\* a removal has left one of two colliding ids in both structures
C1_Witness ==
    /\ call.name = "remove_book" /\ call.ret
    /\ _hash("A") = _hash("B")
    /\ Len(books.nodes) = 1
    /\ Cardinality(HashSlots) = 1

\* C2: a Record is borrowed iff exactly one open BorrowEvent of its id is in
\* the Ledger; an id whose Record is not borrowed, or that has no Record,
\* has no open BorrowEvent.
C2_OneOpenEvent ==
    \A book_id \in Ids :
       IF RecordOf(book_id) # NoneRef /\ book_heap[RecordOf(book_id)].is_borrowed
       THEN Cardinality(OpenEvents(book_id)) = 1
       ELSE OpenEvents(book_id) = {}

\* an id is borrowed again after its first loan was closed
C2_Witness ==
    \E book_id \in Ids :
       /\ RecordOf(book_id) # NoneRef
       /\ book_heap[RecordOf(book_id)].is_borrowed
       /\ \E i \in 1..Len(borrow_history) :
             /\ record_heap[borrow_history[i]].return_date # NoneDate
             /\ book_heap[record_heap[borrow_history[i]].book].book_id
                   = book_id

\* the queue without its front-most entry for an id
FirstMatch(queue, book_id) ==
    LET m == {i \in 1..Len(queue) : queue[i].book_id = book_id}
    IN IF m = {} THEN 0 ELSE CHOOSE i \in m : \A j \in m : i <= j

WithoutFirstMatch(queue, book_id) ==
    LET i == FirstMatch(queue, book_id)
    IN IF i = 0 THEN queue
       ELSE SubSeq(queue, 1, i - 1) \o SubSeq(queue, i + 1, Len(queue))

\* C3: a successful return takes at most one WaitRequest out of the queue,
\* the front-most one of the returned id; all other entries stay, in their
\* order, and a queue without an entry of that id is left as it was.
C3_ResolveOne ==
    [][(call'.name = "return_book" /\ call'.ret) =>
          /\ waitlist' = WithoutFirstMatch(waitlist, call'.book_id)
          /\ Len(waitlist') >= Len(waitlist) - 1
          /\ call'.notified =
                IF FirstMatch(waitlist, call'.book_id) = 0 THEN NoneStr
                ELSE waitlist[FirstMatch(waitlist, call'.book_id)].user_name
      ]_vars

\* a return has resolved a request; an entry of another id is now at the
\* front and a later request for the returned id is still queued behind it
C3_Witness ==
    /\ call.name = "return_book" /\ call.ret
    /\ call.notified # NoneStr
    /\ Len(waitlist) = 2
    /\ waitlist[1].book_id # call.book_id
    /\ waitlist[2].book_id = call.book_id

\* C4: a borrow of an existing Available record succeeds and makes it
\* Borrowed by the borrower; a borrow by a second user of a Borrowed record
\* is waitlisted: one WaitRequest (id, user) is appended at the back of the
\* queue and the record, the Ledger and the open-loan table stay as they are.
C4_BorrowThenWaitlist ==
    [][call'.name = "borrow_book" =>
          LET book == RecordOf(call'.book_id)
          IN /\ (book # NoneRef /\ ~book_heap[book].is_borrowed) =>
                   /\ call'.ret
                   /\ book_heap'[book].is_borrowed
                   /\ book_heap'[book].borrowed_by = call'.borrower
             /\ (/\ book # NoneRef
                 /\ book_heap[book].is_borrowed
                 /\ book_heap[book].borrowed_by # call'.borrower) =>
                   /\ ~call'.ret
                   /\ call'.path = "Waitlisted"
                   /\ Len(waitlist') = Len(waitlist) + 1
                   /\ SubSeq(waitlist', 1, Len(waitlist)) = waitlist
                   /\ waitlist'[Len(waitlist')].book_id = call'.book_id
                   /\ waitlist'[Len(waitlist')].user_name = call'.borrower
                   /\ UNCHANGED <<book_heap, record_heap, borrow_history,
                                  borrowed_books, books, book_hash_table>>
      ]_vars

\* a second user has been waitlisted behind an earlier request
C4_Witness ==
    /\ call.name = "borrow_book" /\ call.path = "Waitlisted"
    /\ Len(waitlist) = 2
    /\ waitlist[1].user_name # waitlist[2].user_name
    /\ book_heap[RecordOf(call.book_id)].is_borrowed
    /\ book_heap[RecordOf(call.book_id)].borrowed_by # call.borrower

\* C5: the result value of borrow tells NotFound from Waitlisted: a borrow
\* of an absent id and the waitlisted borrow that follows it do not return
\* the same value.
C5_NotFoundVersusWaitlisted ==
    [][(/\ call.name = "borrow_book" /\ call.path = "NotFound"
        /\ call'.name = "borrow_book" /\ call'.path = "Waitlisted")
          => call'.ret # call.ret]_vars

\* C6: add of an id that is present fails and changes nothing of the engine.
C6_DuplicateAdd ==
    [][(call'.name = "add_book" /\ RecordOf(call'.book_id) # NoneRef) =>
          /\ ~call'.ret
          /\ UNCHANGED engine
      ]_vars

\* an add was refused for the second record of the Registry, which is on
\* loan and waited for
C6_Witness ==
    /\ call.name = "add_book" /\ ~call.ret
    /\ Len(books.nodes) = 2
    /\ RecordOf(call.book_id) = books.nodes[2]
    /\ book_heap[RecordOf(call.book_id)].is_borrowed
    /\ \E i \in 1..Len(waitlist) : waitlist[i].book_id = call.book_id

\* C7: remove of a Borrowed record fails and changes nothing: the record is
\* still in Registry and HashIndex, Borrowed by the same borrower, and its
\* BorrowEvent is still open.
C7_RemoveBusy ==
    [][\A book_id \in Ids :
          (/\ call'.name = "remove_book" /\ call'.book_id = book_id
           /\ RecordOf(book_id) # NoneRef
           /\ book_heap[RecordOf(book_id)].is_borrowed) =>
             /\ ~call'.ret
             /\ UNCHANGED engine
             /\ RecordOf(book_id)' = RecordOf(book_id)
             /\ search_by_id(book_id)' = RecordOf(book_id)
             /\ book_heap'[RecordOf(book_id)].is_borrowed
             /\ book_heap'[RecordOf(book_id)].borrowed_by
                   = book_heap[RecordOf(book_id)].borrowed_by
             /\ OpenEvents(book_id)' = OpenEvents(book_id)
             /\ OpenEvents(book_id) # {}
      ]_vars

\* a removal was refused for a record on loan
C7_Witness ==
    /\ call.name = "remove_book" /\ ~call.ret
    /\ RecordOf(call.book_id) # NoneRef
    /\ book_heap[RecordOf(call.book_id)].is_borrowed
    /\ OpenEvents(call.book_id) # {}

\* C8: return of an absent id or of an Available record fails and changes
\* nothing: no record changes, no BorrowEvent is closed and the queue is as
\* it was, also when it holds requests for the id.
C8_FailedReturn ==
    [][(/\ call'.name = "return_book"
        /\ \/ RecordOf(call'.book_id) = NoneRef
           \/ ~book_heap[RecordOf(call'.book_id)].is_borrowed) =>
          /\ ~call'.ret
          /\ UNCHANGED engine
      ]_vars

\* a return of an Available record was refused while a request for it is
\* queued
C8_Witness ==
    /\ call.name = "return_book" /\ ~call.ret
    /\ RecordOf(call.book_id) # NoneRef
    /\ \E i \in 1..Len(waitlist) : waitlist[i].book_id = call.book_id

\* C9: a successful return leaves the record Available, borrower and
\* borrow date cleared and its BorrowEvent closed, also when a waiting
\* requester was found; no BorrowEvent is pushed for the requester, and the
\* borrow of that id that follows succeeds for whoever makes it.
C9_ReturnLeavesAvailable ==
    [][/\ \A book_id \in Ids :
             (call'.name = "return_book" /\ call'.book_id = book_id
                 /\ call'.ret) =>
                LET book == RecordOf(book_id)
                IN /\ book # NoneRef
                   /\ RecordOf(book_id)' = book
                   /\ ~book_heap'[book].is_borrowed
                   /\ book_heap'[book].borrowed_by = NoneStr
                   /\ book_heap'[book].borrow_date = NoneDate
                   /\ OpenEvents(book_id) # {}
                   /\ OpenEvents(book_id)' = {}
                   /\ \A i \in OpenEvents(book_id) :
                         record_heap'[borrow_history[i]].return_date
                            # NoneDate
                   /\ borrow_history' = borrow_history
                   /\ Len(record_heap') = Len(record_heap)
                   /\ book_id \notin DOMAIN borrowed_books'
       /\ (/\ call.name = "return_book" /\ call.ret
           /\ call'.name = "borrow_book"
           /\ call'.book_id = call.book_id) =>
             /\ call'.ret
             /\ book_heap'[RecordOf(call.book_id)].borrowed_by
                   = call'.borrower
      ]_vars

\* a return has found a waiting requester
C9_Witness ==
    /\ call.name = "return_book" /\ call.ret
    /\ call.notified # NoneStr
    /\ ~book_heap[RecordOf(call.book_id)].is_borrowed

\* the Ledger after borrow(A), borrow(B), return(A): A's closed event under
\* B's open event
LedgerAfterABA ==
    /\ Len(borrow_history) = 2
    /\ record_heap[borrow_history[1]].return_date # NoneDate
    /\ record_heap[borrow_history[2]].return_date = NoneDate
    /\ book_heap[record_heap[borrow_history[1]].book].book_id
          # book_heap[record_heap[borrow_history[2]].book].book_id

\* C10 as stated: the snapshot taken after borrow(A), borrow(B), return(A)
\* has A's closed event first and B's open event second.
C10_ReturnedFirst ==
    (call.name = "display_borrow_history" /\ LedgerAfterABA) =>
       /\ call.out[1] = borrow_history[1]
       /\ call.out[2] = borrow_history[2]

\* C10: the snapshot lists the BorrowEvents in reverse order of their push,
\* the most recently borrowed first, so that no entry was borrowed before
\* the entry after it; after borrow(A), borrow(B), return(A) the first
\* entry is B's open event and the second is A's closed event.
C10_MostRecentBorrowFirst ==
    call.name = "display_borrow_history" =>
       /\ Len(call.out) = Len(borrow_history)
       /\ \A i \in 1..Len(call.out) :
             call.out[i] = borrow_history[Len(borrow_history) + 1 - i]
       /\ \A i \in 1..(Len(call.out) - 1) :
             record_heap[call.out[i]].borrow_date
                >= record_heap[call.out[i + 1]].borrow_date
       /\ LedgerAfterABA =>
             /\ record_heap[call.out[1]].return_date = NoneDate
             /\ record_heap[call.out[2]].return_date # NoneDate

\* the snapshot was taken after borrow(A), borrow(B), return(A)
C10_Witness ==
    call.name = "display_borrow_history" /\ LedgerAfterABA

\* the circulation operations alone, one catalogue entry, a longer waitlist
WaitlistNext ==
    \/ \E book_id \in Ids, b \in {<<(<<97>>), (<<66>>), 1925>>} :
          add_book(book_id, b[1], b[2], b[3])
             /\ Bounded(MaxLongWaitlist, MaxClock)
    \/ \E book_id \in Ids : remove_book(book_id)
    \/ \E book_id \in Ids, borrower \in Users :
          borrow_book(book_id, borrower)
             /\ Bounded(MaxLongWaitlist, MaxClock)
    \/ \E book_id \in Ids :
          return_book(book_id) /\ Bounded(MaxLongWaitlist, MaxClock)
    \/ display_waitlist

WaitlistSpec == Init /\ [][WaitlistNext]_vars

\* loans and returns under a clock that advances: one catalogue entry, one
\* user, and no borrow of a record that is on loan
HistoryNext ==
    \/ \E book_id \in Ids, b \in {<<(<<97>>), (<<66>>), 1925>>} :
          add_book(book_id, b[1], b[2], b[3])
             /\ Bounded(0, MaxLongClock)
    \/ \E book_id \in Ids : remove_book(book_id)
    \/ \E book_id \in Ids, borrower \in {"u1"} :
          borrow_book(book_id, borrower)
             /\ Bounded(0, MaxLongClock)
    \/ \E book_id \in Ids :
          return_book(book_id) /\ Bounded(0, MaxLongClock)
    \/ display_borrow_history

HistorySpec == Init /\ [][HistoryNext]_vars

\* ---------------------------------------------------------------- inventory
MaxShelf == 3       \* Book objects ever constructed, on the shelf alone
ShelfIds == {"A", "B", "C"}
\* ("The Hobbit", "b", 1937), ("Gatsby", "a", 1925), ("theory", "B", 1960),
\* ("THEORY", "c", 1961)
ShelfCatalogue ==
    {<<(<<84, 104, 101, 32, 72, 111, 98, 98, 105, 116>>), (<<98>>), 1937>>,
     <<(<<71, 97, 116, 115, 98, 121>>), (<<97>>), 1925>>,
     <<(<<116, 104, 101, 111, 114, 121>>), (<<66>>), 1960>>,
     <<(<<84, 72, 69, 79, 82, 89>>), (<<99>>), 1961>>}
\* search_by_title arguments: "the", "OR"
ShelfQueries == {<<116, 104, 101>>, <<79, 82>>}
\* hash() of the three ids: all in one bucket, two in one bucket, or each
\* in its own
ShelfHashFunctions ==
    {[A |-> -93, B |-> 107, C |-> 7],
     [A |-> -93, B |-> 107, C |-> 9],
     [A |-> -93, B |-> 8, C |-> 9]}

ShelfInit ==
    /\ book_heap = <<>>
    /\ record_heap = <<>>
    /\ books = [nodes |-> <<>>, size |-> 0]
    /\ borrow_history = <<>>
    /\ waitlist = <<>>
    /\ book_hash_table = [b \in {} |-> <<>>]
    /\ borrowed_books = [k \in {} |-> NoneRef]
    /\ hash \in ShelfHashFunctions
    /\ clock = 1
    /\ call = [name |-> "init"]

\* the inventory operations alone, over three ids and longer titles
ShelfNext ==
    \/ \E book_id \in ShelfIds, b \in ShelfCatalogue :
          add_book(book_id, b[1], b[2], b[3])
             /\ Len(book_heap') <= MaxShelf
    \/ \E book_id \in ShelfIds : remove_book(book_id)
    \/ \E sort_by \in SortKeys : display_all_books(sort_by)
    \/ \E title \in ShelfQueries : search_by_title(title)

ShelfSpec == ShelfInit /\ [][ShelfNext]_vars

\* str.casefold() of an ASCII string
CaseFolded(s) ==
    [i \in 1..Len(s) |-> IF s[i] \in 65..90 THEN s[i] + 32 ELSE s[i]]

\* s <= t in the lexicographic order of the code points
KeyLeq(s, t) ==
    \/ Len(s) <= Len(t) /\ SubSeq(t, 1, Len(s)) = s
    \/ \E i \in 1..Len(s) :
          /\ i <= Len(t)
          /\ SubSeq(s, 1, i - 1) = SubSeq(t, 1, i - 1)
          /\ s[i] < t[i]

\* the sort key of a Record: its case-folded title or author
KeyOf(field, r) ==
    CaseFolded(IF field = "title" THEN book_heap[r].title
               ELSE book_heap[r].author)

\* after holds the Records of before, each once, in non-decreasing order of
\* the key, Records of an equal key in the order they have in before
IsStableSort(before, after, field) ==
    /\ Len(after) = Len(before)
    /\ \A i \in 1..Len(before) :
          Cardinality({j \in 1..Len(after) : after[j] = before[i]}) = 1
    /\ \A i, j \in 1..Len(after) :
          i < j => KeyLeq(KeyOf(field, after[i]), KeyOf(field, after[j]))
    /\ \A i, j \in 1..Len(after) :
          (i < j /\ KeyOf(field, after[i]) = KeyOf(field, after[j])) =>
             \E a, b \in 1..Len(before) :
                a < b /\ before[a] = after[i] /\ before[b] = after[j]

\* C11: a sort of the Registry by title or by author yields a permutation
\* of the same Records in non-decreasing order of the case-folded key, and
\* Records whose case-folded keys are equal keep the order they had.
C11_StableSort ==
    [][call'.name = "display_all_books" =>
          /\ CaseFolded(call'.sort_by) = <<116, 105, 116, 108, 101>> =>
                IsStableSort(books.nodes, books'.nodes, "title")
          /\ CaseFolded(call'.sort_by) = <<97, 117, 116, 104, 111, 114>> =>
                IsStableSort(books.nodes, books'.nodes, "author")
      ]_vars

\* a sort by title has moved a Record to the front of two Records whose
\* titles differ in case only; these two are in the order of their
\* insertion, the lower-case title first
C11_Witness ==
    /\ call.name = "display_all_books"
    /\ CaseFolded(call.sort_by) = <<116, 105, 116, 108, 101>>
    /\ Len(books.nodes) = 3
    /\ books.nodes[1] > books.nodes[2]
    /\ books.nodes[2] < books.nodes[3]
    /\ book_heap[books.nodes[2]].title = <<116, 104, 101, 111, 114, 121>>
    /\ book_heap[books.nodes[3]].title = <<84, 72, 69, 79, 82, 89>>

\* needle occurs in haystack as a run of consecutive characters
Contains(haystack, needle) ==
    \E a, b \in 0..Len(haystack) :
       a <= b /\ SubSeq(haystack, a + 1, b) = needle

\* the Registry positions whose title contains the query, case folded
Matches(query) ==
    {i \in 1..Len(books.nodes) :
        Contains(CaseFolded(book_heap[books.nodes[i]].title),
                 CaseFolded(query))}

\* C12: search_by_title(q) returns exactly the Records whose case-folded
\* title contains the case-folded q, in the order of the Registry, and
\* changes nothing of the engine.
C12_TitleSearch ==
    [][call'.name = "search_by_title" =>
          LET m == Matches(call'.title)
          IN /\ Len(call'.out) = Cardinality(m)
             /\ \A i \in m :
                   call'.out[Cardinality({j \in m : j <= i})]
                      = books.nodes[i]
             /\ UNCHANGED engine
      ]_vars

\* "the" was searched in the titles "The Hobbit", "Gatsby", "theory": the
\* first and the third Record were returned
C12_Witness ==
    /\ call.name = "search_by_title"
    /\ call.title = <<116, 104, 101>>
    /\ Len(books.nodes) = 3
    /\ book_heap[books.nodes[1]].title
          = <<84, 104, 101, 32, 72, 111, 98, 98, 105, 116>>
    /\ book_heap[books.nodes[2]].title = <<71, 97, 116, 115, 98, 121>>
    /\ book_heap[books.nodes[3]].title = <<116, 104, 101, 111, 114, 121>>
    /\ call.out = <<books.nodes[1], books.nodes[3]>>

\* ---------------------------------------------------------------- HashTable alone
\* the values stored under the keys
TableValues == {1, 2}

\* ht.insert(key, value)
HashTable_insert_call(key, value) ==
    /\ book_hash_table' = HashTable_insert(book_hash_table, key, value)
    /\ call' = [name |-> "HashTable.insert", key |-> key, value |-> value]
    /\ UNCHANGED <<book_heap, record_heap, books, borrow_history, waitlist,
                   borrowed_books, hash, clock>>

\* ht.get(key)
HashTable_get_call(key) ==
    /\ call' = [name |-> "HashTable.get", key |-> key,
                ret |-> HashTable_get(book_hash_table, key)]
    /\ UNCHANGED <<engine, hash, clock>>

\* ht.delete(key)
HashTable_delete_call(key) ==
    /\ book_hash_table' = HashTable_delete(book_hash_table, key)
    /\ call' = [name |-> "HashTable.delete", key |-> key,
                ret |-> HashTable_delete_found(book_hash_table, key)]
    /\ UNCHANGED <<book_heap, record_heap, books, borrow_history, waitlist,
                   borrowed_books, hash, clock>>

HashNext ==
    \/ \E key \in ShelfIds, value \in TableValues :
          HashTable_insert_call(key, value)
    \/ \E key \in ShelfIds : HashTable_get_call(key)
    \/ \E key \in ShelfIds : HashTable_delete_call(key)

HashSpec == ShelfInit /\ [][HashNext]_vars

\* the number of entries the HashIndex holds for a key, and the value of
\* the key's entry (NoneRef when it has none)
EntryCount(key) == Cardinality({s \in HashSlots : HashEntry(s)[1] = key})
ValueOf(key) ==
    IF EntryCount(key) = 0 THEN NoneRef
    ELSE HashEntry(CHOOSE s \in HashSlots : HashEntry(s)[1] = key)[2]

\* C13: whatever buckets the keys fall into, the HashIndex is a finite map:
\* insert leaves one entry for the key, holding the inserted value, also
\* when the key was present; get returns the value of the key's entry or
\* none; delete returns true exactly when the key was present and leaves no
\* entry for it; no call changes the entry of another key.
C13_FiniteMap ==
    [][\A key \in ShelfIds :
          /\ (call'.name = "HashTable.insert" /\ call'.key = key) =>
                /\ EntryCount(key)' = 1
                /\ ValueOf(key)' = call'.value
          /\ (call'.name = "HashTable.get" /\ call'.key = key) =>
                /\ call'.ret = ValueOf(key)
                /\ EntryCount(key)' = EntryCount(key)
                /\ ValueOf(key)' = ValueOf(key)
          /\ (call'.name = "HashTable.delete" /\ call'.key = key) =>
                /\ call'.ret = (EntryCount(key) > 0)
                /\ EntryCount(key)' = 0
          /\ (/\ call'.name \in {"HashTable.insert", "HashTable.get",
                                  "HashTable.delete"}
              /\ call'.key # key) =>
                /\ EntryCount(key)' = EntryCount(key)
                /\ ValueOf(key)' = ValueOf(key)
          /\ EntryCount(key) <= 1
      ]_vars

\* an insert has replaced the value of the middle one of three keys that
\* share a bucket
C13_Witness ==
    /\ call.name = "HashTable.insert"
    /\ \E b \in DOMAIN book_hash_table :
          /\ Len(book_hash_table[b]) = 3
          /\ book_hash_table[b][2] = <<call.key, call.value>>

\* C14: the Ledger is append-only: every step keeps the BorrowEvents it
\* holds, in their order; the id, the borrower and the borrow date of an
\* event never change, and a return date that is set stays as it is, also
\* when the id is borrowed again or its Record is removed and added again.
C14_LedgerAppendOnly ==
    [][/\ Len(borrow_history') >= Len(borrow_history)
       /\ SubSeq(borrow_history', 1, Len(borrow_history)) = borrow_history
       /\ \A i \in 1..Len(borrow_history) :
             LET r == borrow_history[i]
             IN /\ record_heap'[r].book = record_heap[r].book
                /\ book_heap'[record_heap[r].book].book_id
                      = book_heap[record_heap[r].book].book_id
                /\ record_heap'[r].borrower = record_heap[r].borrower
                /\ record_heap'[r].borrow_date = record_heap[r].borrow_date
                /\ record_heap[r].return_date # NoneDate =>
                      record_heap'[r].return_date = record_heap[r].return_date
      ]_vars

\* an id was borrowed and returned, its Record removed and added again, and
\* the id borrowed once more, at a later time: the closed event of the first
\* Book lies under the open event of the second
C14_Witness ==
    /\ call.name = "borrow_book" /\ call.ret
    /\ Len(borrow_history) = 2
    /\ record_heap[borrow_history[1]].return_date # NoneDate
    /\ record_heap[borrow_history[2]].return_date = NoneDate
    /\ record_heap[borrow_history[1]].book # record_heap[borrow_history[2]].book
    /\ book_heap[record_heap[borrow_history[1]].book].book_id = call.book_id
    /\ book_heap[record_heap[borrow_history[2]].book].book_id = call.book_id
    /\ record_heap[borrow_history[2]].borrow_date
          > record_heap[borrow_history[1]].return_date

\* the Records of the Registry, as a set
RegistrySet == {books.nodes[i] : i \in 1..Len(books.nodes)}

\* C15: display_all_books with sort_by "title" or "author" (in any case)
\* leaves the Registry in the sorted order, which a listing without a sort
\* and the title search that follows see; it changes nothing else: the Registry
\* holds the same Records, and no Record, nor the HashIndex, the Ledger,
\* the open-loan table or the queue changes.
C15_SortSideEffect ==
    [][/\ call'.name = "display_all_books" =>
             /\ UNCHANGED <<book_heap, record_heap, borrow_history, waitlist,
                            book_hash_table, borrowed_books>>
             /\ RegistrySet' = RegistrySet
             /\ Len(books'.nodes) = Len(books.nodes)
             /\ books'.size = books.size
             /\ CaseFolded(call'.sort_by) = <<116, 105, 116, 108, 101>> =>
                   IsStableSort(books.nodes, books'.nodes, "title")
             /\ CaseFolded(call'.sort_by) = <<97, 117, 116, 104, 111, 114>> =>
                   IsStableSort(books.nodes, books'.nodes, "author")
             /\ CaseFolded(call'.sort_by) \notin
                      {<<116, 105, 116, 108, 101>>,
                       <<97, 117, 116, 104, 111, 114>>} =>
                   books' = books
       /\ (call.name = "display_all_books"
              /\ call'.name = "search_by_title") =>
             /\ books' = books
             /\ \A i, j \in 1..Len(call'.out) :
                   i < j =>
                      \E a, b \in 1..Len(books.nodes) :
                         /\ a < b
                         /\ books.nodes[a] = call'.out[i]
                         /\ books.nodes[b] = call'.out[j]
      ]_vars

\* a sort by author has brought the Record added last to the front while
\* a Record is on loan and a request is queued
C15_Witness ==
    /\ call.name = "display_all_books"
    /\ CaseFolded(call.sort_by) = <<97, 117, 116, 104, 111, 114>>
    /\ Len(books.nodes) = 2
    /\ books.nodes[1] > books.nodes[2]
    /\ book_heap[books.nodes[2]].is_borrowed
    /\ waitlist # <<>>
    /\ DOMAIN borrowed_books # {}

\* C16: for every id the lookup through the HashIndex and the linear find
\* of the Registry return the same Record, or both none; the Registry holds
\* at most one Record of the id, and it is this Record that the traversal
\* and the title searches of the Registry come upon under the id.
C16_SameRecord ==
    \A book_id \in Ids :
       LET via_index == search_by_id(book_id)
           via_list == LinkedList_search_by_id(book_heap, books.nodes,
                                               book_id)
       IN /\ via_index = via_list
          /\ via_index # NoneRef => book_heap[via_index].book_id = book_id
          /\ \A i \in 1..Len(books.nodes) :
                book_heap[books.nodes[i]].book_id = book_id =>
                   books.nodes[i] = via_index
          /\ Cardinality({i \in 1..Len(books.nodes) :
                             books.nodes[i] = via_index}) <= 1
          /\ \A title \in Queries :
                LET out == LinkedList_search_by_title(book_heap, books.nodes,
                                                      title)
                IN \A i \in 1..Len(out) :
                      book_heap[out[i]].book_id = book_id =>
                         out[i] = via_index

\* a borrow has found its Record as the second entry of a bucket that two
\* ids share; the Registry, sorted since, holds this Record first, on loan
C16_Witness ==
    /\ call.name = "borrow_book" /\ call.ret
    /\ Len(books.nodes) = 2
    /\ book_heap[books.nodes[1]].book_id = call.book_id
    /\ book_heap[books.nodes[1]].is_borrowed
    /\ Len(Bucket(book_hash_table, _hash(call.book_id))) = 2
    /\ Bucket(book_hash_table, _hash(call.book_id))[2]
          = <<call.book_id, books.nodes[1]>>

\* C17: the queue changes in two ways only: a borrow of a Record that is on
\* loan appends one WaitRequest of the id and the user, and a successful
\* return takes out the front-most WaitRequest of the returned id; add,
\* remove (also of the Record a request names), the searches, the listings,
\* a successful borrow and a failed return leave the queue as it is.
C17_QueueFrame ==
    [][/\ \/ waitlist' = waitlist
          \/ /\ call'.name = "borrow_book" /\ ~call'.ret
             /\ RecordOf(call'.book_id) # NoneRef
             /\ book_heap[RecordOf(call'.book_id)].is_borrowed
             /\ Len(waitlist') = Len(waitlist) + 1
             /\ SubSeq(waitlist', 1, Len(waitlist)) = waitlist
             /\ waitlist'[Len(waitlist')].book_id = call'.book_id
             /\ waitlist'[Len(waitlist')].user_name = call'.borrower
          \/ /\ call'.name = "return_book" /\ call'.ret
             /\ RecordOf(call'.book_id) # NoneRef
             /\ book_heap[RecordOf(call'.book_id)].is_borrowed
             /\ FirstMatch(waitlist, call'.book_id) # 0
             /\ waitlist' = WithoutFirstMatch(waitlist, call'.book_id)
       /\ call'.name \in {"add_book", "remove_book", "search_by_title",
                          "search_by_id", "display_all_books",
                          "display_borrow_history", "display_waitlist"} =>
             waitlist' = waitlist
       /\ (call'.name = "borrow_book" /\ call'.ret) => waitlist' = waitlist
       /\ (call'.name = "return_book" /\ ~call'.ret) => waitlist' = waitlist
      ]_vars

\* a Record was removed that a queued request names; the request is still
\* in the queue
C17_Witness ==
    /\ call.name = "remove_book" /\ call.ret
    /\ RecordOf(call.book_id) = NoneRef
    /\ \E i \in 1..Len(waitlist) : waitlist[i].book_id = call.book_id

\* ---------------------------------------------------------------- return_book, loop by loop
\* While return_book is in its loops, call is its frame: the locals
\* temp_queue and found_waiting, and queue, the waitlist as the scan found it.
InLoop == call.name \in {"return_book.scan", "return_book.restore"}

\* return_book up to its first loop
return_book_enter(book_id) ==
    LET book == search_by_id(book_id)
    IN /\ ~InLoop
       /\ IF cannot_return(book)
          THEN /\ call' = [name |-> "return_book", book_id |-> book_id,
                           ret |-> FALSE,
                           path |-> IF book = NoneRef THEN "NotFound"
                                    ELSE "NotBorrowed",
                           notified |-> NoneStr]
               /\ UNCHANGED <<book_heap, record_heap, borrowed_books, clock>>
          ELSE /\ book_heap' = [book_heap EXCEPT ![book] = mark_returned(@)]
               /\ IF book_id \in DOMAIN borrowed_books
                  THEN \E now \in Now(clock) :
                          /\ record_heap' =
                                 close_record(record_heap,
                                     borrowed_books[book_id], now)
                          /\ borrowed_books' =
                                 [k \in DOMAIN borrowed_books \ {book_id} |->
                                     borrowed_books[k]]
                          /\ clock' = now
                  ELSE UNCHANGED <<record_heap, borrowed_books, clock>>
               /\ call' = IF waitlist # <<>>
                          THEN [name |-> "return_book.scan",
                                book_id |-> book_id,
                                temp_queue |-> <<>>, found_waiting |-> <<>>,
                                queue |-> waitlist]
                          ELSE [name |-> "return_book", book_id |-> book_id,
                                ret |-> TRUE, path |-> "Returned",
                                notified |-> NoneStr]
       /\ UNCHANGED <<books, borrow_history, waitlist, book_hash_table, hash>>

\* one test of "while not self.waitlist.is_empty()" and, if it holds, one
\* pass through the body
scan_step ==
    /\ call.name = "return_book.scan"
    /\ IF waitlist = <<>>
       THEN /\ call' = [call EXCEPT !.name = "return_book.restore"]
            /\ UNCHANGED waitlist
       ELSE LET entry == Head(waitlist)
            IN /\ waitlist' = dequeue(waitlist)
               /\ call' = IF entry.book_id = call.book_id
                               /\ call.found_waiting = <<>>
                          THEN [call EXCEPT !.found_waiting = <<entry>>]
                          ELSE [call EXCEPT
                                   !.temp_queue = enqueue(@, entry)]
    /\ UNCHANGED <<book_heap, record_heap, books, borrow_history,
                   book_hash_table, borrowed_books, hash, clock>>

\* a move that puts the entry back into the temporary queue
restore_move_back(queue, temp_queue) ==
    [queue |-> queue,
     temp_queue |-> enqueue(dequeue(temp_queue), Head(temp_queue))]

\* self.waitlist.enqueue(temp_queue.dequeue())
restore_move(queue, temp_queue) ==
    [queue |-> enqueue(queue, Head(temp_queue)),
     temp_queue |-> dequeue(temp_queue)]

\* one test of "while not temp_queue.is_empty()" and, if it holds, one pass
\* through the body; the method returns when the test fails
restore_step ==
    /\ call.name = "return_book.restore"
    /\ IF call.temp_queue = <<>>
       THEN /\ call' = [name |-> "return_book", book_id |-> call.book_id,
                        ret |-> TRUE, path |-> "Returned",
                        notified |->
                           IF call.found_waiting # <<>>
                           THEN call.found_waiting[1].user_name
                           ELSE NoneStr]
            /\ UNCHANGED waitlist
       ELSE LET m == restore_move(waitlist, call.temp_queue)
            IN /\ waitlist' = m.queue
               /\ call' = [call EXCEPT !.temp_queue = m.temp_queue]
    /\ UNCHANGED <<book_heap, record_heap, books, borrow_history,
                   book_hash_table, borrowed_books, hash, clock>>

\* no method is called while return_book runs
ReturnNext ==
    \/ \E book_id \in Ids, b \in {<<(<<97>>), (<<66>>), 1925>>} :
          /\ ~InLoop
          /\ add_book(book_id, b[1], b[2], b[3])
          /\ Bounded(MaxLongWaitlist, MaxClock)
    \/ \E book_id \in Ids, borrower \in Users :
          /\ ~InLoop
          /\ borrow_book(book_id, borrower)
          /\ Bounded(MaxLongWaitlist, MaxClock)
    \/ \E book_id \in Ids :
          return_book_enter(book_id) /\ Bounded(MaxLongWaitlist, MaxClock)
    \/ scan_step
    \/ restore_step

\* a method that is in a loop goes on with it
ReturnSpec ==
    Init /\ [][ReturnNext]_vars /\ WF_vars(scan_step) /\ WF_vars(restore_step)

\* the loops leave the queue that Scan and Restore compute
LoopsAsScanRestore ==
    [][(call.name = "return_book.restore" /\ call'.name = "return_book") =>
          waitlist' = Restore(<<>>,
                         Scan(call.queue, <<>>, <<>>, call.book_id).temp_queue)
      ]_vars

\* C18: a return_book that has entered its scan comes to its end and
\* returns a result, whatever the queue holds; when it returns, the
\* temporary queue is empty and the queue holds every entry the scan found,
\* but the consumed one, in the order they had.
C18_ReturnCompletes ==
    /\ InLoop ~> (call.name = "return_book" /\ call.ret)
    /\ [][(call.name = "return_book.restore"
              /\ call'.name = "return_book") =>
             /\ call.temp_queue = <<>>
             /\ waitlist' = WithoutFirstMatch(call.queue, call.book_id)
             /\ Len(call.found_waiting)
                   = Len(call.queue) - Len(waitlist')
         ]_vars

\* a return has run through a queue of three entries, consumed the first
\* and put the two entries of the other id back
C18_Witness ==
    /\ call.name = "return_book" /\ call.ret
    /\ call.notified # NoneStr
    /\ Len(waitlist) = 2
    /\ waitlist[1].book_id # call.book_id
    /\ waitlist[2].book_id # call.book_id

\* C19: remove, borrow and return of an id that has no Record fail and
\* change nothing of the engine: Registry, HashIndex, Ledger, open-loan
\* table and queue are as before, and the borrow has queued no request.
C19_AbsentId ==
    [][(/\ call'.name \in {"remove_book", "borrow_book", "return_book"}
        /\ RecordOf(call'.book_id) = NoneRef) =>
          /\ ~call'.ret
          /\ UNCHANGED <<books, book_hash_table, borrow_history,
                         borrowed_books, waitlist>>
          /\ UNCHANGED <<book_heap, record_heap>>
          /\ Len(waitlist') = Len(waitlist)
      ]_vars

\* a borrow was refused for an id without a Record while a Record of the
\* other id is on loan and a request that names the absent id is queued
C19_Witness ==
    /\ call.name = "borrow_book" /\ ~call.ret
    /\ RecordOf(call.book_id) = NoneRef
    /\ \E i \in 1..Len(waitlist) : waitlist[i].book_id = call.book_id
    /\ \E i \in 1..Len(books.nodes) : book_heap[books.nodes[i]].is_borrowed

\* the Registry holds its Records in the order of their construction
InInsertionOrder(nodes) ==
    \A i, j \in 1..Len(nodes) : i < j => nodes[i] < nodes[j]

\* C20: a successful add places the new Record last; a successful remove
\* takes out the one node of the id, at the head, inside or at the tail,
\* and the other Records keep their order; a Registry that is in insertion
\* order stays so in every step that is not a sort.
C20_InsertionOrder ==
    [][/\ (call'.name = "add_book" /\ call'.ret) =>
             /\ books'.nodes = Append(books.nodes, Len(book_heap'))
             /\ Len(book_heap') = Len(book_heap) + 1
             /\ book_heap'[Len(book_heap')].book_id = call'.book_id
       /\ (call'.name = "remove_book" /\ call'.ret) =>
             \E p \in 1..Len(books.nodes) :
                /\ book_heap[books.nodes[p]].book_id = call'.book_id
                /\ \A q \in 1..Len(books.nodes) :
                      book_heap[books.nodes[q]].book_id = call'.book_id
                         => q = p
                /\ books'.nodes = SubSeq(books.nodes, 1, p - 1)
                                    \o SubSeq(books.nodes, p + 1,
                                              Len(books.nodes))
       /\ (call'.name # "display_all_books"
              /\ InInsertionOrder(books.nodes)) =>
             InInsertionOrder(books'.nodes)
      ]_vars

\* "Gatsby" by "a", "The Hobbit" by "b" and "THEORY" by "c" were added in
\* this order, which is their order under either sort as well; the second
\* was removed, and the first and the third are left, in this order
C20_Witness ==
    /\ call.name = "remove_book" /\ call.ret
    /\ Len(book_heap) = 3
    /\ book_heap[1].title = <<71, 97, 116, 115, 98, 121>>
    /\ book_heap[2].title = <<84, 104, 101, 32, 72, 111, 98, 98, 105, 116>>
    /\ book_heap[3].title = <<84, 72, 69, 79, 82, 89>>
    /\ book_heap[2].book_id = call.book_id
    /\ books.nodes = <<1, 3>>

\* C21: the borrowed flag of a Book changes in two steps only: a successful
\* borrow of its id sets it, a successful return of its id clears it, and
\* the Book is then the Record of the id; every other step, and every step
\* on another id, leaves it, and a Record is removed only while its flag is
\* false.
C21_FlagTransitions ==
    [][/\ \A b \in 1..Len(book_heap) :
             book_heap'[b].is_borrowed # book_heap[b].is_borrowed =>
                /\ call'.name \in {"borrow_book", "return_book"}
                /\ call'.ret
                /\ call'.book_id = book_heap[b].book_id
                /\ RecordOf(call'.book_id) = b
                /\ book_heap'[b].is_borrowed = (call'.name = "borrow_book")
       /\ (call'.name \in {"borrow_book", "return_book"} /\ call'.ret) =>
             /\ RecordOf(call'.book_id) # NoneRef
             /\ book_heap[RecordOf(call'.book_id)].is_borrowed
                   = (call'.name = "return_book")
             /\ book_heap'[RecordOf(call'.book_id)].is_borrowed
                   = (call'.name = "borrow_book")
       /\ (call'.name = "remove_book" /\ call'.ret) =>
             /\ RecordOf(call'.book_id) # NoneRef
             /\ ~book_heap[RecordOf(call'.book_id)].is_borrowed
       /\ \A b \in (Len(book_heap) + 1)..Len(book_heap') :
             ~book_heap'[b].is_borrowed
      ]_vars

\* a return has cleared the flag of its Record while the Record of the
\* other id stays on loan
C21_Witness ==
    /\ call.name = "return_book" /\ call.ret
    /\ Len(books.nodes) = 2
    /\ \E i, j \in 1..2 :
          /\ book_heap[books.nodes[i]].book_id = call.book_id
          /\ ~book_heap[books.nodes[i]].is_borrowed
          /\ book_heap[books.nodes[j]].book_id # call.book_id
          /\ book_heap[books.nodes[j]].is_borrowed

\* the ids whose Record is on loan
BorrowedIds ==
    {book_id \in Ids :
        /\ RecordOf(book_id) # NoneRef
        /\ book_heap[RecordOf(book_id)].is_borrowed}

\* C22: the keys of the open-loan table are the ids whose Record is on
\* loan; the entry of an id is a BorrowEvent of the Ledger without a return
\* date, of the Record registered under the id and of the borrower the
\* Record names; a Record has a borrower and a borrow date exactly when it
\* is on loan.
C22_OpenLoanTable ==
    /\ DOMAIN borrowed_books = BorrowedIds
    /\ \A book_id \in DOMAIN borrowed_books :
          LET r == borrowed_books[book_id]
          IN /\ \E i \in 1..Len(borrow_history) : borrow_history[i] = r
             /\ record_heap[r].return_date = NoneDate
             /\ record_heap[r].book = RecordOf(book_id)
             /\ record_heap[r].borrower
                   = book_heap[RecordOf(book_id)].borrowed_by
    /\ \A i \in 1..Len(books.nodes) :
          LET b == book_heap[books.nodes[i]]
          IN /\ (b.borrowed_by # NoneStr) = b.is_borrowed
             /\ (b.borrow_date # NoneDate) = b.is_borrowed

\* an id is on loan for the second time, to another borrower; its table
\* entry is the open event on top of the closed one, and the Record of the
\* other id is not on loan
C22_Witness ==
    /\ Len(borrow_history) = 2
    /\ Len(books.nodes) = 2
    /\ Cardinality(DOMAIN borrowed_books) = 1
    /\ \A book_id \in DOMAIN borrowed_books :
          /\ borrowed_books[book_id] = borrow_history[2]
          /\ record_heap[borrow_history[1]].book = RecordOf(book_id)
          /\ record_heap[borrow_history[1]].return_date # NoneDate
          /\ record_heap[borrow_history[1]].borrower
                # record_heap[borrow_history[2]].borrower

\* C23: the queue, empty at the start, grows by one in every step that is a
\* Waitlisted borrow and shrinks by one in every return that finds a
\* waiting requester, and its length changes in no other step, so that its
\* length is the number of the former less the number of the latter; a
\* borrow is Waitlisted exactly when the id has a Record that is on loan,
\* and the request it queues names this id.
C23_QueueLength ==
    [][LET waitlisted == /\ call'.name = "borrow_book"
                         /\ call'.path = "Waitlisted"
           resolved == /\ call'.name = "return_book"
                       /\ call'.ret
                       /\ call'.notified # NoneStr
       IN /\ Len(waitlist') = Len(waitlist)
                                 + (IF waitlisted THEN 1 ELSE 0)
                                 - (IF resolved THEN 1 ELSE 0)
          /\ call'.name = "borrow_book" =>
                waitlisted = (/\ RecordOf(call'.book_id) # NoneRef
                              /\ book_heap[RecordOf(call'.book_id)]
                                    .is_borrowed)
          /\ waitlisted =>
                waitlist'[Len(waitlist')].book_id = call'.book_id
          /\ call.name = "init" => waitlist = <<>>
      ]_vars

\* the queue holds a request for an id whose Record was removed and a
\* request for an id whose Record is not on loan
C23_Witness ==
    /\ \E i \in 1..Len(waitlist) : RecordOf(waitlist[i].book_id) = NoneRef
    /\ \E i \in 1..Len(waitlist) :
          /\ RecordOf(waitlist[i].book_id) # NoneRef
          /\ ~book_heap[RecordOf(waitlist[i].book_id)].is_borrowed
====
